---- MODULE Spec2Model ----
(***************************************************************************)
(* ArtifactDiffPanel (apps/web/src/components/artifact-diff-panel):        *)
(* the effect that resolves the two versions to compare, computes the      *)
(* line diff and folds it into one hunk, and the close handler.            *)
(*                                                                         *)
(* A text is a sequence of one-character strings; NL is the line           *)
(* terminator.  "undefined" line numbers are the value Undefined.          *)
(***************************************************************************)
EXTENDS Integers, Sequences, FiniteSets, TLC

VARIABLES
  version,    \* the release of the `diff` package the build resolved
  open,       \* the `open` prop, written through setOpen
  diffInfo,   \* useState: the descriptor shown in the header
  diffFiles,  \* useState: the files handed to <Diff>
  stats,      \* useState: { additions, deletions }
  diffId,     \* useQueryState(ARTIFACT_DIFF_QUERY_PARAM)
  messages,   \* graphData.messages
  artifact,   \* graphData.artifact
  oldText,    \* the effect's local oldText when it last reached the diff
  newText,    \* the effect's local newText when it last reached the diff
  fileName,   \* the effect's local fileName when it last reached the diff
  outcome     \* where the last run of the effect left

vars == <<version, open, diffInfo, diffFiles, stats, diffId, messages,
          artifact, oldText, newText, fileName, outcome>>

NL == "\n"

\* Bounds of the model.
MaxLines == 3
MaxVersions == 2

\* `undefined` in the oldLineNumber / newLineNumber field of a change.
Undefined == 0

Chars == {"a", "b"}

(***************************************************************************)
(* Strings                                                                 *)
(***************************************************************************)
RECURSIVE Concat(_)
Concat(ss) == IF ss = <<>> THEN <<>> ELSE Head(ss) \o Concat(Tail(ss))

\* String.prototype.endsWith('\n')
EndsWithNL(s) == Len(s) > 0 /\ s[Len(s)] = NL

\* String.prototype.split('\n')
RECURSIVE SplitNL(_)
SplitNL(s) ==
  IF \A i \in 1..Len(s) : s[i] # NL
  THEN <<s>>
  ELSE LET i == CHOOSE k \in 1..Len(s) :
                  s[k] = NL /\ \A j \in 1..(k - 1) : s[j] # NL
       IN <<SubSeq(s, 1, i - 1)>> \o SplitNL(SubSeq(s, i + 1, Len(s)))

\* Array.prototype.filter with the predicate of the line split:
\* line !== '' || keepEmpty
RECURSIVE FilterLines(_, _)
FilterLines(lines, keepEmpty) ==
  IF lines = <<>> THEN <<>>
  ELSE (IF Head(lines) # <<>> \/ keepEmpty THEN <<Head(lines)>> ELSE <<>>)
       \o FilterLines(Tail(lines), keepEmpty)

(***************************************************************************)
(* diffLines of the `diff` package: the line tokenizer and the Myers       *)
(* search of its base Diff class.  Two releases of the search are          *)
(* modelled, which break ties between an insertion and a removal           *)
(* differently: "swap" (insertions first, reordered on output) and         *)
(* "plain" (removals first).                                               *)
(***************************************************************************)
LibVersions == {"swap", "plain"}

\* lineDiff.tokenize: every line keeps its terminator; no empty last token.
TokensOf(parts) ==
  [i \in 1..(IF parts[Len(parts)] = <<>> THEN Len(parts) - 1 ELSE Len(parts))
     |-> IF i < Len(parts) THEN parts[i] \o <<NL>> ELSE parts[i]]

Tokenize(value) == TokensOf(SplitNL(value))

Component(count, added, removed) ==
  [count |-> count, added |-> added, removed |-> removed]

\* pushComponent / addToPath: a run of the same kind is one component.
PushComponent(components, added, removed) ==
  LET n == Len(components) IN
  IF n > 0 /\ components[n].added = added /\ components[n].removed = removed
  THEN [components EXCEPT ![n].count = @ + 1]
  ELSE Append(components, Component(1, added, removed))

\* The number of equal tokens from position (oldPos + 1, newPos + 1) on
\* (positions are 0-based indices of the last token consumed).
RECURSIVE CommonCount(_, _, _, _)
CommonCount(newT, oldT, newPos, oldPos) ==
  IF newPos + 1 < Len(newT) /\ oldPos + 1 < Len(oldT)
     /\ newT[newPos + 2] = oldT[oldPos + 2]
  THEN 1 + CommonCount(newT, oldT, newPos + 1, oldPos + 1)
  ELSE 0

\* A path [newPos, oldPos, components] moved c tokens along its diagonal.
Advance(path, c) ==
  [newPos |-> path.newPos + c, oldPos |-> path.oldPos + c,
   components |-> IF c > 0
                  THEN Append(path.components, Component(c, FALSE, FALSE))
                  ELSE path.components]

\* extractCommon: follow the diagonal as far as the tokens are equal.
ExtractCommon(path, newT, oldT) ==
  Advance(path, CommonCount(newT, oldT, path.newPos, path.oldPos))

NoPath == [newPos |-> -2, oldPos |-> -2, components |-> <<>>]

AtEnd(path, newT, oldT) ==
  path.newPos + 1 >= Len(newT) /\ path.oldPos + 1 >= Len(oldT)

\* bestPath[k] after the pass of edit length editLength: paths holds the
\* diagonals -editLength, -editLength + 2, ..., editLength in this order.  The
\* diagonal of a path is newPos - oldPos.
PathAt(paths, editLength, k) ==
  IF k >= -editLength /\ k <= editLength
  THEN paths[(k + editLength) \div 2 + 1]
  ELSE NoPath

\* The choice between extending addPath by an insertion and removePath by a
\* removal: the path before its diagonal is followed.
Branch(release, addPath, removePath, newT, oldT) ==
  LET canAdd == addPath # NoPath /\ addPath.newPos + 1 < Len(newT)
      canRemove == removePath # NoPath /\ removePath.oldPos + 1 < Len(oldT)
      useRemove ==
        IF release = "swap"
        THEN ~canAdd \/ (canRemove /\ addPath.newPos < removePath.newPos)
        ELSE ~(~canRemove \/ (canAdd /\ removePath.oldPos < addPath.oldPos))
  IN IF ~canAdd /\ ~canRemove THEN NoPath
     ELSE IF useRemove
     THEN [newPos |-> removePath.newPos, oldPos |-> removePath.oldPos + 1,
           components |-> PushComponent(removePath.components, FALSE, TRUE)]
     ELSE [newPos |-> addPath.newPos + 1, oldPos |-> addPath.oldPos,
           components |-> PushComponent(addPath.components, TRUE, FALSE)]

\* A path that exists is followed along its diagonal.
Follow(path, newT, oldT) ==
  IF path = NoPath THEN NoPath ELSE ExtractCommon(path, newT, oldT)

\* One diagonal of execEditLength: the path that reaches diagonal k with one
\* more edit, from the paths `prev` of the edit length before.
StepDiagonal(release, prev, editLength, k, newT, oldT) ==
  Follow(Branch(release, PathAt(prev, editLength - 1, k - 1),
                PathAt(prev, editLength - 1, k + 1), newT, oldT),
         newT, oldT)

\* The loop of execEditLength over the diagonals from k upwards.
RECURSIVE StepDiagonals(_, _, _, _, _, _)
StepDiagonals(release, prev, editLength, k, newT, oldT) ==
  IF k > editLength THEN <<>>
  ELSE <<StepDiagonal(release, prev, editLength, k, newT, oldT)>>
       \o StepDiagonals(release, prev, editLength, k + 2, newT, oldT)

\* execEditLength, repeated: the search returns the components of the first
\* path that reaches the end of both token lists (only the diagonal
\* Len(newT) - Len(oldT) can hold it).  SearchFrom looks at the paths cur of
\* edit length editLength and goes on to the next edit length.
RECURSIVE ExecEditLength(_, _, _, _, _)
RECURSIVE SearchFrom(_, _, _, _, _, _)
SearchFrom(release, cur, last, editLength, newT, oldT) ==
  IF last # NoPath /\ AtEnd(last, newT, oldT)
  THEN last.components
  ELSE IF editLength >= Len(newT) + Len(oldT)
  THEN <<>>
  ELSE ExecEditLength(release, cur, editLength + 1, newT, oldT)

ExecEditLength(release, prev, editLength, newT, oldT) ==
  SearchFrom(release,
             StepDiagonals(release, prev, editLength, -editLength, newT, oldT),
             PathAt(StepDiagonals(release, prev, editLength, -editLength,
                                  newT, oldT),
                    editLength, Len(newT) - Len(oldT)),
             editLength, newT, oldT)

\* buildValues of the "swap" release: a removal that follows an insertion is
\* moved in front of it.
RECURSIVE SwapRemovals(_, _)
SwapRemovals(components, pos) ==
  IF pos > Len(components) THEN components
  ELSE IF pos > 1 /\ components[pos].removed /\ components[pos - 1].added
  THEN SwapRemovals([components EXCEPT ![pos - 1] = components[pos],
                                       ![pos] = components[pos - 1]], pos + 1)
  ELSE SwapRemovals(components, pos + 1)

\* buildValues: the text of every component, taken from the new tokens
\* (unchanged, added) or the old tokens (removed).
RECURSIVE ComponentValues(_, _, _, _, _)
ComponentValues(components, newT, oldT, newPos, oldPos) ==
  IF components = <<>> THEN <<>>
  ELSE IF ~Head(components).removed
  THEN <<[value |-> Concat(SubSeq(newT, newPos + 1,
                                   newPos + Head(components).count)),
          added |-> Head(components).added, removed |-> FALSE]>>
       \o ComponentValues(Tail(components), newT, oldT,
                          newPos + Head(components).count,
                          IF Head(components).added THEN oldPos
                          ELSE oldPos + Head(components).count)
  ELSE <<[value |-> Concat(SubSeq(oldT, oldPos + 1,
                                   oldPos + Head(components).count)),
          added |-> FALSE, removed |-> TRUE]>>
       \o ComponentValues(Tail(components), newT, oldT, newPos,
                          oldPos + Head(components).count)

\* The search from the seed path (edit length 0: the common start).
Components(release, seed, newT, oldT) ==
  IF AtEnd(seed, newT, oldT) THEN seed.components
  ELSE ExecEditLength(release, <<seed>>, 1, newT, oldT)

BuildValues(release, components, newT, oldT) ==
  ComponentValues(IF release = "swap" THEN SwapRemovals(components, 1)
                  ELSE components,
                  newT, oldT, 0, 0)

\* Diff.diff on the two token lists.
DiffTokens(release, oldT, newT) ==
  BuildValues(release,
    Components(release,
      ExtractCommon([newPos |-> -1, oldPos |-> -1, components |-> <<>>],
                    newT, oldT),
      newT, oldT),
    newT, oldT)

\* diffLines(oldStr, newStr): the sequence of Change objects.
diffLines(release, oldStr, newStr) ==
  DiffTokens(release, Tokenize(oldStr), Tokenize(newStr))

(***************************************************************************)
(* The hunk builder: lines 89-158 of the effect.                           *)
(***************************************************************************)
\* line 103: change.value.split('\n').filter(line => line !== '' ||
\* change.value.endsWith('\n'))
SplitLines(value) == FilterLines(SplitNL(value), EndsWithNL(value))

\* lines 105-134: the changes one Change pushes, numbered from the counters.
RECURSIVE EmitLines(_, _, _, _)

\* Faulty variant of EmitLines, for sensitivity analysis: an unchanged line does not advance newLineNumber.
RECURSIVE EmitLinesStuckNew(_, _, _, _)
EmitLinesStuckNew(lines, change, oldLineNumber, newLineNumber) ==
  IF lines = <<>> THEN <<>>
  ELSE IF change.added
  THEN <<[type |-> "insert", content |-> Head(lines),
          oldLineNumber |-> Undefined, newLineNumber |-> newLineNumber]>>
       \o EmitLinesStuckNew(Tail(lines), change, oldLineNumber,
                            newLineNumber + 1)
  ELSE IF change.removed
  THEN <<[type |-> "delete", content |-> Head(lines),
          oldLineNumber |-> oldLineNumber, newLineNumber |-> Undefined]>>
       \o EmitLinesStuckNew(Tail(lines), change, oldLineNumber + 1,
                            newLineNumber)
  ELSE <<[type |-> "normal", content |-> Head(lines),
          oldLineNumber |-> oldLineNumber, newLineNumber |-> newLineNumber]>>
       \o EmitLinesStuckNew(Tail(lines), change, oldLineNumber + 1,
                            newLineNumber)

EmitLines(lines, change, oldLineNumber, newLineNumber) ==
  IF lines = <<>> THEN <<>>
  ELSE IF change.added
  THEN <<[type |-> "insert", content |-> Head(lines),
          oldLineNumber |-> Undefined, newLineNumber |-> newLineNumber]>>
       \o EmitLines(Tail(lines), change, oldLineNumber, newLineNumber + 1)
  ELSE IF change.removed
  THEN <<[type |-> "delete", content |-> Head(lines),
          oldLineNumber |-> oldLineNumber, newLineNumber |-> Undefined]>>
       \o EmitLines(Tail(lines), change, oldLineNumber + 1, newLineNumber)
  ELSE <<[type |-> "normal", content |-> Head(lines),
          oldLineNumber |-> oldLineNumber, newLineNumber |-> newLineNumber]>>
       \o EmitLines(Tail(lines), change, oldLineNumber + 1, newLineNumber + 1)

\* lines 105-134: the counters and the counts after the n lines of one
\* Change, with the changes pushed for them.
AfterChange(acc, change, n, pushed) ==
  [hunkChanges |-> acc.hunkChanges \o pushed,
   oldLineNumber |-> IF change.added THEN acc.oldLineNumber
                     ELSE acc.oldLineNumber + n,
   newLineNumber |-> IF ~change.added /\ change.removed
                     THEN acc.newLineNumber
                     ELSE acc.newLineNumber + n,
   additions |-> IF change.added THEN acc.additions + n ELSE acc.additions,
   deletions |-> IF ~change.added /\ change.removed
                 THEN acc.deletions + n ELSE acc.deletions]

\* lines 102-135: the body of changes.forEach for one Change split in lines.
OnChange(acc, change, lines) ==
  AfterChange(acc, change, Len(lines),
              EmitLines(lines, change, acc.oldLineNumber, acc.newLineNumber))

\* lines 95-135: changes.forEach, from the counters' current values; the
\* result holds hunkChanges, the counters and the counts.
RECURSIVE ForEachChange(_, _)
ForEachChange(changes, acc) ==
  IF changes = <<>> THEN acc
  ELSE ForEachChange(Tail(changes),
         OnChange(acc, Head(changes), SplitLines(Head(changes).value)))

\* Faulty variant of Hunks, for sensitivity analysis: the hunk is pushed whether or not a change was.
HunksAlways(w) ==
  <<[oldStart |-> 1, oldLines |-> w.oldLineNumber - 1,
     newStart |-> 1, newLines |-> w.newLineNumber - 1,
     changes |-> w.hunkChanges]>>

\* lines 137-146: one hunk over everything when any change was pushed.
Hunks(w) ==
  IF Len(w.hunkChanges) > 0
  THEN <<[oldStart |-> 1, oldLines |-> w.oldLineNumber - 1,
          newStart |-> 1, newLines |-> w.newLineNumber - 1,
          changes |-> w.hunkChanges]>>
  ELSE <<>>

\* lines 137-158: the file and the stats from the walk's result w.
Assemble(w, name) ==
  [file |-> [oldPath |-> name, newPath |-> name, type |-> "modify",
             hunks |-> Hunks(w)],
   stats |-> [additions |-> w.additions, deletions |-> w.deletions]]

\* lines 91-158: the file and the stats computed from the two texts.
BuildDiff(release, oldStr, newStr, name) ==
  Assemble(ForEachChange(diffLines(release, oldStr, newStr),
             [hunkChanges |-> <<>>, oldLineNumber |-> 1, newLineNumber |-> 1,
              additions |-> 0, deletions |-> 0]),
           name)

(***************************************************************************)
(* The version resolver: lines 43-87 of the effect.                        *)
(***************************************************************************)
\* null / undefined values of the three kinds of object the effect reads.
NoDiffId == ""
NoInfo == [changeType |-> "undefined", artifactIndex |-> 0, previousIndex |-> 0]
NoText == <<"undefined">>
NoContent == [index |-> 0, type |-> "undefined", title |-> "",
              code |-> NoText, fullMarkdown |-> NoText]
NoArtifact == [isNull |-> TRUE, contents |-> <<>>]
NoMessage == [id |-> NoDiffId, artifactDiffInfo |-> NoInfo]

\* Array.prototype.find over the messages, by id (line 43).
RECURSIVE FindMessage(_, _)
FindMessage(ms, id) ==
  IF ms = <<>> THEN NoMessage
  ELSE IF Head(ms).id = id THEN Head(ms) ELSE FindMessage(Tail(ms), id)

\* Array.prototype.find over artifact.contents, by index (lines 58-60, 63).
RECURSIVE FindContent(_, _)
FindContent(contents, index) ==
  IF contents = <<>> THEN NoContent
  ELSE IF Head(contents).index = index THEN Head(contents)
  ELSE FindContent(Tail(contents), index)

\* lines 61-64: the previous version is looked up for an update only.
PreviousContent(contents, info) ==
  IF info.changeType = "update"
  THEN FindContent(contents, info.previousIndex)
  ELSE NoContent

\* Faulty variant of ResolveTexts, for sensitivity analysis: the previous version's kind is not compared with
\* the current one's.
ResolveTextsAnyKind(currentContent, previousContent, info) ==
  [fileName |-> IF currentContent.title # "" THEN currentContent.title
                ELSE "Untitled",
   newText |-> IF currentContent.type = "code" THEN currentContent.code
               ELSE currentContent.fullMarkdown,
   oldText |->
     IF info.changeType = "create" \/ previousContent = NoContent THEN <<>>
     ELSE IF previousContent.type = "code" THEN previousContent.code
     ELSE previousContent.fullMarkdown]

\* lines 71-87: fileName, newText and oldText from the current content,
\* which was found, and the previous content.
ResolveTexts(currentContent, previousContent, info) ==
  [fileName |-> IF currentContent.title # "" THEN currentContent.title
                ELSE "Untitled",
   newText |-> IF currentContent.type = "code" THEN currentContent.code
               ELSE currentContent.fullMarkdown,
   oldText |->
     IF info.changeType = "create" THEN <<>>
     ELSE IF currentContent.type = "code"
     THEN (IF previousContent.type = "code" THEN previousContent.code
           ELSE <<>>)
     ELSE (IF previousContent.type = "text" THEN previousContent.fullMarkdown
           ELSE <<>>)]

\* lines 58-87: the version resolution.
Resolve(contents, info) ==
  ResolveTexts(FindContent(contents, info.artifactIndex),
               PreviousContent(contents, info), info)

(***************************************************************************)
(* The component                                                           *)
(***************************************************************************)
\* Inputs of the model.
MessageOrder == <<"m1", "m2">>
MessageIds == {MessageOrder[i] : i \in DOMAIN MessageOrder}
\* The versions the graph context may deliver: both kinds, with and without
\* a title, two bodies.
ContentInputs ==
  { [type |-> "code", title |-> "Doc", text |-> <<"a">>],
    [type |-> "code", title |-> "", text |-> <<"a", NL, "b">>],
    [type |-> "text", title |-> "Doc", text |-> <<"a", NL, "b">>],
    [type |-> "text", title |-> "", text |-> <<"a">>] }
Indices == {1, 2}
DiffInfos == [changeType : {"create", "update"},
              artifactIndex : Indices,
              previousIndex : Indices]

Content(index, type, title, text) ==
  [index |-> index, type |-> type, title |-> title,
   code |-> IF type = "code" THEN text ELSE NoText,
   fullMarkdown |-> IF type = "text" THEN text ELSE NoText]

NoStats == [additions |-> 0, deletions |-> 0]

\* lines 23-29: the state after the first render (no diff selected, nothing
\* loaded; the effect of the mount returns at line 39).
Init ==
  /\ version \in LibVersions
  /\ open = FALSE
  /\ diffInfo = NoInfo
  /\ diffFiles = <<>>
  /\ stats = NoStats
  /\ diffId = NoDiffId
  /\ messages = <<>>
  /\ artifact = NoArtifact
  /\ oldText = <<>>
  /\ newText = <<>>
  /\ fileName = "Untitled"
  /\ outcome = "mounted"

\* The component's state as one record: what a render sees.
Rendered ==
  [open |-> open, diffInfo |-> diffInfo, diffFiles |-> diffFiles,
   stats |-> stats, diffId |-> diffId, messages |-> messages,
   artifact |-> artifact]

\* A run that returns before line 71 has no oldText, newText, fileName.
Returned(s, exit) ==
  [open |-> s.open, diffInfo |-> s.diffInfo, diffFiles |-> s.diffFiles,
   stats |-> s.stats, oldText |-> <<>>, newText |-> <<>>,
   fileName |-> "Untitled", outcome |-> exit]

\* lines 89-162: the try block on the resolved texts r; the diff step either
\* returns, and the three setters run, or throws, and none does.
Shown(d) ==
  [diffFiles |-> <<d.file>>, stats |-> d.stats, open |-> TRUE,
   outcome |-> "ok"]

TryBlock(s, r, throws) ==
  IF throws
  THEN [diffFiles |-> s.diffFiles, stats |-> s.stats, open |-> s.open,
        outcome |-> "error"]
  ELSE Shown(BuildDiff(version, r.oldText, r.newText, r.fileName))

\* lines 55-162 once line 66 found the current content: t is the try
\* block's result on the resolved texts r.
Reached(diffInfoData, r, t) ==
  [open |-> t.open, diffInfo |-> diffInfoData, diffFiles |-> t.diffFiles,
   stats |-> t.stats, oldText |-> r.oldText, newText |-> r.newText,
   fileName |-> r.fileName, outcome |-> t.outcome]

\* lines 55-162: the run for a message that carries diffInfoData.
OnDiffInfo(s, diffInfoData, throws) ==
  IF FindContent(s.artifact.contents, diffInfoData.artifactIndex) = NoContent
  THEN [Returned(s, "no content") EXCEPT !.diffInfo = diffInfoData]
  ELSE Reached(diffInfoData, Resolve(s.artifact.contents, diffInfoData),
               TryBlock(s, Resolve(s.artifact.contents, diffInfoData),
                        throws))

\* lines 43-162: the run for the message found (or not) by line 43.
OnMessage(s, diffMessage, throws) ==
  IF diffMessage = NoMessage THEN Returned(s, "no message")
  ELSE IF diffMessage.artifactDiffInfo = NoInfo
  THEN Returned(s, "no diff info")
  ELSE OnDiffInfo(s, diffMessage.artifactDiffInfo, throws)

\* lines 31-163: one run of the effect on the state s of the render that
\* scheduled it.
Effect(s, throws) ==
  IF s.diffId = NoDiffId /\ s.open
  THEN [Returned(s, "closed") EXCEPT !.open = FALSE, !.diffInfo = NoInfo,
                                     !.diffFiles = <<>>]
  ELSE IF s.diffId = NoDiffId \/ Len(s.messages) = 0 \/ s.artifact.isNull
  THEN Returned(s, "idle")
  ELSE OnMessage(s, FindMessage(s.messages, s.diffId), throws)

\* The effect runs after the render that changed diffId, messages or
\* artifact, before the next event is handled.
RunEffect(s, throws) ==
  \E e \in {Effect(s, throws)} :
     /\ open' = e.open
     /\ diffInfo' = e.diffInfo
     /\ diffFiles' = e.diffFiles
     /\ stats' = e.stats
     /\ oldText' = e.oldText
     /\ newText' = e.newText
     /\ fileName' = e.fileName
     /\ outcome' = e.outcome
     /\ diffId' = s.diffId
     /\ messages' = s.messages
     /\ artifact' = s.artifact
     /\ UNCHANGED version

\* lines 165-170: the close button, shown while the panel is open; the
\* effect follows when diffId changed.
handleClose(throws) ==
  /\ open
  /\ LET s == [Rendered EXCEPT !.open = FALSE, !.diffInfo = NoInfo,
                               !.diffFiles = <<>>, !.diffId = NoDiffId]
     IN IF diffId # NoDiffId
        THEN RunEffect(s, throws)
        ELSE /\ open' = s.open
             /\ diffInfo' = s.diffInfo
             /\ diffFiles' = s.diffFiles
             /\ diffId' = s.diffId
             /\ UNCHANGED <<version, stats, messages, artifact, oldText,
                            newText, fileName, outcome>>

\* The navigation collaborator writes the query parameter (a message id or
\* nothing), and the effect runs.
SetDiffId(id, throws) ==
  /\ id # diffId
  /\ RunEffect([Rendered EXCEPT !.diffId = id], throws)

\* The graph context delivers one more message (messages arrive in the
\* order of MessageOrder), and the effect runs.
AddMessage(info, throws) ==
  /\ Len(messages) < Len(MessageOrder)
  /\ RunEffect([Rendered EXCEPT !.messages =
         Append(messages, [id |-> MessageOrder[Len(messages) + 1],
                           artifactDiffInfo |-> info])], throws)

\* The graph context delivers the artifact with one more version, and the
\* effect runs.
AddContent(c, throws) ==
  /\ Len(artifact.contents) < MaxVersions
  /\ RunEffect([Rendered EXCEPT !.artifact =
         [isNull |-> FALSE,
          contents |-> Append(artifact.contents,
              Content(Len(artifact.contents) + 1, c.type, c.title, c.text))]],
       throws)

Next ==
  \/ \E throws \in BOOLEAN : handleClose(throws)
  \/ \E id \in MessageIds \cup {NoDiffId}, throws \in BOOLEAN :
       SetDiffId(id, throws)
  \/ \E info \in DiffInfos \cup {NoInfo}, throws \in BOOLEAN :
       AddMessage(info, throws)
  \/ \E c \in ContentInputs, throws \in BOOLEAN : AddContent(c, throws)

Spec == Init /\ [][Next]_vars

(***************************************************************************)
(* The hunk builder alone: the try block of the effect applied to every    *)
(* pair of texts of at most MaxLines lines.                                *)
(***************************************************************************)
Lines == {<<>>} \cup {<<c>> : c \in Chars}

RECURSIVE JoinNL(_)
JoinNL(ls) ==
  IF Len(ls) = 1 THEN ls[1] ELSE ls[1] \o <<NL>> \o JoinNL(Tail(ls))

Texts == UNION {{JoinNL(ls) : ls \in [1..n -> Lines]} : n \in 1..MaxLines}

InitDiff ==
  /\ version \in LibVersions
  /\ open = FALSE
  /\ diffInfo = NoInfo
  /\ diffFiles = <<>>
  /\ stats = NoStats
  /\ diffId = NoDiffId
  /\ messages = <<>>
  /\ artifact = NoArtifact
  /\ oldText \in Texts
  /\ newText \in Texts
  /\ fileName = "Untitled"
  /\ outcome = "mounted"

\* lines 89-162 on the texts drawn by InitDiff.
ComputeDiff(throws) ==
  /\ outcome = "mounted"
  /\ \E t \in {TryBlock(Rendered,
                [oldText |-> oldText, newText |-> newText,
                 fileName |-> fileName], throws)} :
        /\ diffFiles' = t.diffFiles
        /\ stats' = t.stats
        /\ open' = t.open
        /\ outcome' = t.outcome
  /\ UNCHANGED <<version, diffInfo, diffId, messages, artifact, oldText,
                 newText, fileName>>

NextDiff == \E throws \in BOOLEAN : ComputeDiff(throws)

SpecDiff == InitDiff /\ [][NextDiff]_vars

(***************************************************************************)
(* Vocabulary of the claims                                                *)
(***************************************************************************)
\* The lines of a text: the empty text has none; otherwise the pieces
\* between line terminators, a text that ends with a terminator having an
\* empty last line.
LinesOf(text) == IF text = <<>> THEN <<>> ELSE SplitNL(text)

\* The hunks and the changes the panel holds.
ShownHunks == IF diffFiles = <<>> THEN <<>> ELSE diffFiles[1].hunks
ShownChanges == IF ShownHunks = <<>> THEN <<>> ELSE ShownHunks[1].changes

IsInsert(c) == c.type = "insert"
IsDelete(c) == c.type = "delete"
IsNormal(c) == c.type = "normal"
OnOldSide(c) == c.type \in {"delete", "normal"}
OnNewSide(c) == c.type \in {"insert", "normal"}

ContentsOf(changes) == [i \in 1..Len(changes) |-> changes[i].content]

RemoveAt(seq, i) == SubSeq(seq, 1, i - 1) \o SubSeq(seq, i + 1, Len(seq))

\* The body of a version: its code or its markdown, by kind.
Body(c) == IF c.type = "code" THEN c.code ELSE c.fullMarkdown

\* The descriptor diffId selects, and the version it shows as new.
SelectedInfo == FindMessage(messages, diffId).artifactDiffInfo
SelectedContent == FindContent(artifact.contents, SelectedInfo.artifactIndex)

\* diffId selects a message that carries a descriptor whose artifactIndex
\* is in the history.
Resolvable ==
  /\ diffId # NoDiffId
  /\ SelectedInfo # NoInfo
  /\ SelectedContent # NoContent

(***************************************************************************)
(* Claims about the panel (Spec)                                           *)
(***************************************************************************)
\* C1: whenever the panel is open with hunks (and the last run did not fail
\* in the diff step), the hunks and the counts it holds are those computed
\* from the descriptor that is selected now and the current history.
C1_NoStaleDiff ==
  (open /\ diffFiles # <<>> /\ outcome # "error") =>
     /\ Resolvable
     /\ diffFiles = <<BuildDiff(version,
                        Resolve(artifact.contents, SelectedInfo).oldText,
                        Resolve(artifact.contents, SelectedInfo).newText,
                        Resolve(artifact.contents, SelectedInfo).fileName).file>>
     /\ stats = BuildDiff(version,
                  Resolve(artifact.contents, SelectedInfo).oldText,
                  Resolve(artifact.contents, SelectedInfo).newText,
                  Resolve(artifact.contents, SelectedInfo).fileName).stats

\* C5: a step in which the diff step fails leaves diffInfo, diffFiles, stats
\* and open as they were before it.
C5_FailureLeavesStateUntouched ==
  [][outcome' = "error" =>
        /\ diffInfo' = diffInfo
        /\ diffFiles' = diffFiles
        /\ stats' = stats
        /\ open' = open]_vars

\* C6: while no descriptor is selected the panel is closed and holds no
\* DiffResult: no hunks, and additions and deletions are 0.
C6_ClosedMeansCleared ==
  diffId = NoDiffId =>
     /\ ~open
     /\ diffFiles = <<>>
     /\ stats = NoStats

\* The old text the resolver is to choose for descriptor info, the current
\* content being cur: nothing for a create; for an update the body of the
\* version previousIndex names when it exists and is of cur's kind, and
\* nothing otherwise.
ExpectedOldText(contents, info, cur) ==
  IF info.changeType = "create" THEN <<>>
  ELSE IF \E i \in DOMAIN contents :
            contents[i].index = info.previousIndex
            /\ contents[i].type = cur.type
  THEN Body(contents[CHOOSE i \in DOMAIN contents :
                       contents[i].index = info.previousIndex])
  ELSE <<>>

\* C7: whenever the selected descriptor names a version of the history, the
\* resolution does not fail (the run reaches the diff step) and the old text
\* is "" for a create, the body of version previousIndex for an update when
\* that version exists and has the kind of the current one, and "" for an
\* update otherwise.
C7_OldTextChoice ==
  Resolvable =>
     /\ outcome \in {"ok", "error"}
     /\ oldText = ExpectedOldText(artifact.contents, SelectedInfo,
                                  SelectedContent)
     /\ newText = Body(SelectedContent)

\* C7 witness: an update whose previous version exists with a non-empty body
\* of the other kind was resolved, with the old text empty.
C7_Witness ==
  /\ Resolvable
  /\ outcome = "ok"
  /\ SelectedInfo.changeType = "update"
  /\ FindContent(artifact.contents, SelectedInfo.previousIndex) # NoContent
  /\ FindContent(artifact.contents, SelectedInfo.previousIndex).type
       # SelectedContent.type
  /\ Body(FindContent(artifact.contents, SelectedInfo.previousIndex)) # <<>>
  /\ oldText = <<>>

C3_AllInsertedCountsLines ==
  (outcome = "ok" /\ oldText = <<>>) =>
     /\ stats.deletions = 0
     /\ \A i \in DOMAIN ShownChanges : IsInsert(ShownChanges[i])
     /\ stats.additions = Len(LinesOf(newText))

\* C4: when the new text is the old text without one interior line (no
\* line of the old text being blank, as in "a\nb\nc" against "a\nc"),
\* deletions = 1, additions = 0, and the unchanged lines are the lines of
\* the new text, each with its position in the old and in the new text.
C4_InteriorLineRemoved ==
  (/\ outcome = "ok"
   /\ \A j \in DOMAIN LinesOf(oldText) : LinesOf(oldText)[j] # <<>>
   /\ \E i \in 2..(Len(LinesOf(oldText)) - 1) :
         LinesOf(newText) = RemoveAt(LinesOf(oldText), i)) =>
     /\ stats.deletions = 1
     /\ stats.additions = 0
     /\ \E i \in 2..(Len(LinesOf(oldText)) - 1) :
          /\ LinesOf(newText) = RemoveAt(LinesOf(oldText), i)
          /\ SelectSeq(ShownChanges, IsNormal) =
               [j \in 1..Len(LinesOf(newText)) |->
                  [type |-> "normal", content |-> LinesOf(newText)[j],
                   oldLineNumber |-> IF j < i THEN j ELSE j + 1,
                   newLineNumber |-> j]]

\* C8: the additions of the diff of (A, B) are the deletions of the diff of
\* (B, A), and its deletions are the additions of the diff of (B, A).
C8_Symmetry ==
  outcome = "ok" =>
     /\ stats.additions
          = BuildDiff(version, newText, oldText, fileName).stats.deletions
     /\ stats.deletions
          = BuildDiff(version, newText, oldText, fileName).stats.additions

\* The line numbers of the hunk h: its deleted and unchanged lines carry the
\* old numbers 1..oldLines in order, its inserted and unchanged lines the
\* new numbers 1..newLines, and the other number is undefined.
WellNumbered(h) ==
  /\ Len(SelectSeq(h.changes, OnOldSide)) = h.oldLines
  /\ \A i \in 1..h.oldLines :
        SelectSeq(h.changes, OnOldSide)[i].oldLineNumber = i
  /\ Len(SelectSeq(h.changes, OnNewSide)) = h.newLines
  /\ \A i \in 1..h.newLines :
        SelectSeq(h.changes, OnNewSide)[i].newLineNumber = i
  /\ \A i \in DOMAIN h.changes :
        /\ IsInsert(h.changes[i]) => h.changes[i].oldLineNumber = Undefined
        /\ IsDelete(h.changes[i]) => h.changes[i].newLineNumber = Undefined

\* C9: in every hunk produced the old line numbers of the deleted and
\* unchanged lines are exactly 1..oldLineCount in emission order, the new
\* line numbers of the inserted and unchanged lines are exactly
\* 1..newLineCount, inserted lines carry no old number and deleted lines no
\* new number.
C9_LineNumbering ==
  outcome = "ok" =>
     \A k \in DOMAIN ShownHunks : WellNumbered(ShownHunks[k])

\* C9 witness: a hunk with inserted, deleted and unchanged lines, more than
\* one of each stream.
C9_Witness ==
  /\ outcome = "ok"
  /\ Len(ShownHunks) = 1
  /\ \E i, j, k \in DOMAIN ShownChanges :
        /\ IsInsert(ShownChanges[i])
        /\ IsDelete(ShownChanges[j])
        /\ IsNormal(ShownChanges[k])
  /\ ShownHunks[1].oldLines > 1
  /\ ShownHunks[1].newLines > 1

\* C10: when the diff has a hunk, its deleted and unchanged lines are the
\* lines of the old text, its inserted and unchanged lines the lines of the
\* new text, and oldLines and newLines are the two line counts.
C10_LineConservation ==
  (outcome = "ok" /\ ShownHunks # <<>>) =>
     /\ ContentsOf(SelectSeq(ShownChanges, OnOldSide)) = LinesOf(oldText)
     /\ ContentsOf(SelectSeq(ShownChanges, OnNewSide)) = LinesOf(newText)
     /\ ShownHunks[1].oldLines = Len(LinesOf(oldText))
     /\ ShownHunks[1].newLines = Len(LinesOf(newText))

====
